---- MODULE Spec2Model ----
(***************************************************************************)
(* Model of SlidingWindowService                                           *)
(* (awx/ui/client/features/output/slide.service.js).                       *)
(*                                                                         *)
(* The service keeps a window of counter-numbered records (`records`,      *)
(* `uuids`) and a promise chain (`chain`).  Promises are modelled          *)
(* explicitly: every `.then(cb)` of the source creates one entry of        *)
(* `promises`; a callback runs once its parent promise is resolved, and    *)
(* either returns a value, starts a collaborator call (sink or source), or *)
(* returns another promise, which the entry then follows.                  *)
(***************************************************************************)
EXTENDS Integers, Sequences, FiniteSets, TLC

\* ------------------------------------------------------------------ bounds
\* Largest value the source may report as its maximum counter.
MaxLog == 5
\* Number of public calls issued in one behaviour.
MaxCalls == 3
\* Number of public calls that may be unsettled at once.
MaxPending == 2
\* Number of public calls issued in one behaviour in which sink and source
\* calls may reject.
MaxFailCalls == 2

\* ------------------------------------------------- imported constants
\* './constants' (scaled down: the service only compares against them).
OUTPUT_EVENT_LIMIT == 3
OUTPUT_PAGE_SIZE == 2

\* --------------------------------------------------------------- helpers
Max2(a, b) == IF a >= b THEN a ELSE b
Min2(a, b) == IF a <= b THEN a ELSE b
Abs(x) == IF x < 0 THEN -x ELSE x
SetMax(S) == CHOOSE x \in S : \A y \in S : y <= x
SetMin(S) == CHOOSE x \in S : \A y \in S : x <= y

RECURSIVE SumOver(_, _)
SumOver(S, f) ==
    IF S = {} THEN 0
    ELSE LET x == CHOOSE y \in S : TRUE
         IN f[x] + SumOver(S \ {x}, f)

\* ------------------------------------------------------- range arithmetic
checkRangeOverlap(range, other) ==
    LET span == Max2(range[2], other[2]) - Min2(range[1], other[1])
    IN (range[2] - range[1]) + (other[2] - other[1]) >= span

\* getOverlapArray with the high-end distance measured from the wrong end of
\* `range` (index 0 for index 1).
getOverlapArrayWrongEnd(range, other) ==
    IF ~checkRangeOverlap(range, other)
    THEN <<>>
    ELSE <<range[1] - other[1], other[2] - range[1]>>

\* getOverlapArray with the operands of both differences exchanged.
getOverlapArraySwapped(range, other) ==
    IF ~checkRangeOverlap(range, other)
    THEN <<>>
    ELSE <<other[1] - range[1], range[2] - other[2]>>

\* `false` is represented by the empty tuple.
getOverlapArray(range, other) ==
    IF ~checkRangeOverlap(range, other)
    THEN <<>>
    ELSE <<range[1] - other[1], other[2] - range[2]>>

\* NaN, the one non-finite value the clamp of a target lets through (an
\* infinite bound is clamped, or makes the target inverted): a number that
\* is no counter.  Math.max and Math.min give NaN when an argument is NaN,
\* and every comparison with NaN is false.
NaN == 0 - 1000
isFinite(x) == x # NaN
MathMax(a, b) == IF a = NaN \/ b = NaN THEN NaN ELSE Max2(a, b)
MathMin(a, b) == IF a = NaN \/ b = NaN THEN NaN ELSE Min2(a, b)
Greater(a, b) == isFinite(a) /\ isFinite(b) /\ a > b

\* getBoundedRange without the clamp: the range as it was given.
getBoundedRangeUnclamped(range, other) == range

getBoundedRange(range, other) ==
    <<MathMax(range[1], other[1]), MathMin(range[2], other[2])>>

\* ------------------------------------------------------ the collaborators
\* Line span (end_line - start_line) the source reports for a counter.
LineSpan(c) == 1 + (c % 2)
\* Identity token of a record.
Uuid(c) == c

\* api.getRange([low, high]): exactly the records of the requested range.
ApiGetRange(range, maxc) == {c \in 1..maxc : range[1] <= c /\ c <= range[2]}
\* api.getFirst(): the earliest page of the log.
ApiGetFirst(maxc) == {c \in 1..maxc : c <= OUTPUT_PAGE_SIZE}
\* api.getLast(): the latest page of the log.
ApiGetLast(maxc) ==
    {c \in 1..maxc : c > ((maxc - 1) \div OUTPUT_PAGE_SIZE) * OUTPUT_PAGE_SIZE}

SpanSum(events) == SumOver(events, [c \in events |-> LineSpan(c)])

VARIABLES
    records,     \* this.records: counter -> end_line - start_line
    uuids,       \* this.uuids: counter -> uuid
    chain,       \* this.chain: index into promises
    promises,    \* every promise created by the service
    maxCounter,  \* what api.getMaxCounter() returns
    lines,       \* line count of the sink's buffer
    ops,         \* the public calls issued so far
    trace        \* collaborator calls and height reads, in order:
                 \* <<"start" | "end", op, promise>>, <<"height", op,
                 \* promise>>, <<"delete", op, uuid, promise>>

vars == <<records, uuids, chain, promises, maxCounter, lines, ops, trace>>

\* ----------------------------------------------------------- window state
getTailCounterOf(recs) == IF DOMAIN recs = {} THEN 0 ELSE SetMax(DOMAIN recs)
getHeadCounterOf(recs) == IF DOMAIN recs = {} THEN 0 ELSE SetMin(DOMAIN recs)
getMaxCounterOf(recs, maxc) == Max2(getTailCounterOf(recs), maxc)
getRangeOf(recs) == <<getHeadCounterOf(recs), getTailCounterOf(recs)>>
getRecordCountOf(recs) == Cardinality(DOMAIN recs)

getTailCounter == getTailCounterOf(records)
getHeadCounter == getHeadCounterOf(records)
getMaxCounter == getMaxCounterOf(records, maxCounter)
getRange == getRangeOf(records)
getRecordCount == getRecordCountOf(records)
getCapacity == OUTPUT_EVENT_LIMIT - getRecordCount

\* hooks.getScrollHeight(): the height of the sink's buffer.
getScrollHeight == lines

\* ---------------------------------------------------------------- promises
\* One entry per promise.  parent: the promise it was chained from with
\* .then (0 for $q.resolve()); cb: the callback <<kind, a, b>>; st: "wait"
\* (callback not run), "called" (its collaborator call is pending), "follow"
\* (the callback returned the promise `follow`), "resolved", "rejected";
\* ev / h: the value it resolved with (events or a height); lo, hi, n: the
\* arguments of the pending sink call; snap: the [head, tail] read by the
\* move that created it; first: it is the first step of that move; at: the
\* [head, tail] of the window when its callback ran; op: the public call on
\* whose behalf it was created; was: the counters of the window when its
\* callback ran; did: the counters its sink call added to or removed from
\* the window when it resolved.
NewPromise(parent, cb, op, snap, first) ==
    [parent |-> parent, cb |-> cb, st |-> "wait", follow |-> 0,
     ev |-> {}, h |-> 0, lo |-> 0, hi |-> 0, n |-> 0,
     snap |-> snap, first |-> first, at |-> <<0, 0>>, op |-> op,
     was |-> {}, did |-> {}]

\* $q.resolve()
ResolvedPromise ==
    [parent |-> 0, cb |-> <<"resolve", 0, 0>>, st |-> "resolved", follow |-> 0,
     ev |-> {}, h |-> 0, lo |-> 0, hi |-> 0, n |-> 0,
     snap |-> <<0, 0>>, first |-> FALSE, at |-> <<0, 0>>, op |-> 0,
     was |-> {}, did |-> {}]

\* The state of a promise as an observer sees it: a promise that follows
\* another has that one's state, and a promise chained from a rejected one
\* (no error callback is ever given) is rejected without running.
RECURSIVE StateN(_, _, _)
StateN(ps, p, fuel) ==
    IF fuel = 0 THEN "pending"
    ELSE CASE ps[p].st = "resolved" -> "resolved"
           [] ps[p].st = "rejected" -> "rejected"
           [] ps[p].st = "called" -> "pending"
           [] ps[p].st = "follow" -> StateN(ps, ps[p].follow, fuel - 1)
           [] OTHER -> IF StateN(ps, ps[p].parent, fuel - 1) = "rejected"
                       THEN "rejected" ELSE "pending"

StateOf(p) == StateN(promises, p, Len(promises) + 1)
Settled(p) == StateOf(p) \in {"resolved", "rejected"}

\* The promise whose value p carries.
RECURSIVE RootN(_, _, _)
RootN(ps, p, fuel) ==
    IF fuel = 0 \/ ps[p].st # "follow" THEN p
    ELSE RootN(ps, ps[p].follow, fuel - 1)

ValueIn(ps, p) == ps[RootN(ps, p, Len(ps) + 1)]

\* then(cbs[1]).then(cbs[2])... chained on the promise ch: the result is
\* [ps, ch], the promises after the calls and the last promise created (ch
\* itself when cbs is empty).  snap and first describe the move, if any,
\* that makes the calls.
Then(ps, ch, cbs, op, snap, first) ==
    [ps |-> ps \o [i \in 1..Len(cbs) |->
                      NewPromise(IF i = 1 THEN ch ELSE Len(ps) + i - 1,
                                 cbs[i], op, snap, first /\ i = 1)],
     ch |-> IF cbs = <<>> THEN ch ELSE Len(ps) + Len(cbs)]

\* ------------------------------------------------------------------- move
\* this.move([low, high]) called with the promises ps, this.chain = ch, the
\* window recs, the source's maximum maxc and the sink height ht.  Everything
\* but the callbacks themselves is computed when move is called.  The result
\* is [ps, ch]: the promises after the call and the new this.chain, which is
\* also the promise move returns.  An inverted target and a non-finite one
\* take the same no-op branch.
move(ps, ch, recs, maxc, ht, low, high, op) ==
    LET bounds == <<1, getMaxCounterOf(recs, maxc)>>
        target == getBoundedRange(<<low, high>>, bounds)
        newHead == target[1]
        newTail == target[2]
        range == getRangeOf(recs)
        head == range[1]
        tail == range[2]
        overlap == getOverlapArray(range, target)
        reload == IF overlap = <<>>
                  THEN << <<"clear", 0, 0>>,
                          <<"getRange", newHead, newTail>>,
                          <<"pushFront", 0, 0>> >>
                  ELSE <<>>
        trimLow == IF overlap # <<>> /\ overlap[1] < 0
                   THEN << <<"popBack", Abs(overlap[1]), 0>> >>
                   ELSE <<>>
        trimHigh == IF overlap # <<>> /\ overlap[2] < 0
                    THEN << <<"popFront", Abs(overlap[2]), 0>> >>
                    ELSE <<>>
        before == reload \o trimLow \o trimHigh
        growLow == IF overlap # <<>> /\ overlap[1] > 0
                   THEN << <<"getRange", head - overlap[1], head>>,
                           <<"pushBack", 0, 0>> >>
                   ELSE <<>>
        growHigh == IF overlap # <<>> /\ overlap[2] > 0
                    THEN << <<"getRange", tail, tail + overlap[2]>>,
                            <<"pushFront", 0, 0>> >>
                    ELSE <<>>
        read == Len(ps) + Len(before) + 1
    IN IF Greater(newHead, newTail)
          \/ ~isFinite(newHead) \/ ~isFinite(newTail)
       THEN Then(ps, ch, << <<"noopHeight", ht, 0>> >>, op, <<0, 0>>, FALSE)
       ELSE Then(ps, ch,
                 before \o << <<"readHeight", 0, 0>> >> \o growLow \o growHigh
                     \o << <<"popHeight", read, 0>> >>,
                 op, range, TRUE)

\* ----------------------------------------------------------------- paging
\* The range each paging operation hands to move.
getNextTarget(recs, maxc, displacement) ==
    LET head == getHeadCounterOf(recs)
        tail == getTailCounterOf(recs)
        tailRoom == getMaxCounterOf(recs, maxc) - tail
        tailDisplacement == Min2(tailRoom, displacement)
        newTail == tail + tailDisplacement
        headDisplacement == IF newTail - head > OUTPUT_EVENT_LIMIT
                            THEN (newTail - OUTPUT_EVENT_LIMIT) - head
                            ELSE 0
    IN <<head + headDisplacement, tail + tailDisplacement>>

getPreviousTarget(recs, displacement) ==
    LET head == getHeadCounterOf(recs)
        tail == getTailCounterOf(recs)
        headRoom == head - 1
        headDisplacement == Min2(headRoom, displacement)
        newHead == head - headDisplacement
        tailDisplacement == IF tail - newHead > OUTPUT_EVENT_LIMIT
                            THEN tail - (newHead + OUTPUT_EVENT_LIMIT)
                            ELSE 0
    IN <<newHead, tail - tailDisplacement>>

moveHeadTarget(recs, displacement) ==
    LET head == getHeadCounterOf(recs)
        tail == getTailCounterOf(recs)
        headRoom == head - 1
        headDisplacement == Min2(headRoom, displacement)
    IN <<head + headDisplacement, tail>>

moveTailTarget(recs, maxc, displacement) ==
    LET head == getHeadCounterOf(recs)
        tail == getTailCounterOf(recs)
        tailRoom == getMaxCounterOf(recs, maxc) - tail
        tailDisplacement == Max2(tailRoom, displacement)
    IN <<head, tail + tailDisplacement>>

\* this.clear(): result [ps, ch]; ch is the new this.chain and the promise
\* clear returns.
clear(ps, ch, recs, op) ==
    LET count == getRecordCountOf(recs)
    IN Then(ps, ch,
            IF count > 0 THEN << <<"popBack", count, 0>> >> ELSE <<>>,
            op, <<0, 0>>, FALSE)

\* this.getFirst() / this.getLast(): three callbacks chained on what clear
\* returns; this.chain stays what clear left.  Result [ps, ch, ret].
jump(ps, ch, recs, op, fetch, push, shift, amount) ==
    LET count == getRecordCountOf(recs)
        c == IF count > 0 THEN Len(ps) + 1 ELSE ch
        r == Then(clear(ps, ch, recs, op).ps, c,
                  << <<fetch, 0, 0>>, <<push, 0, 0>>, <<shift, amount, 0>> >>,
                  op, <<0, 0>>, FALSE)
    IN [ps |-> r.ps, ch |-> c, ret |-> r.ch]

getFirst(ps, ch, recs, op) ==
    jump(ps, ch, recs, op, "apiGetFirst", "pushFront", "moveTail", OUTPUT_PAGE_SIZE)

getLast(ps, ch, recs, op) ==
    jump(ps, ch, recs, op, "apiGetLast", "pushBack", "moveHead", -OUTPUT_PAGE_SIZE)

\* -------------------------------------------------------------- callbacks
\* The callbacks work on the service's state S = [rec, uu, ch, ps, ln, tr]:
\* this.records, this.uuids, this.chain, the promises, the sink's line
\* count and the trace.
Started(S, p) ==
    [S EXCEPT !.ps[p].st = "called",
              !.tr = Append(@, <<"start", S.ps[p].op, p>>)]

Followed(S, p, r) ==
    [S EXCEPT !.ps = [r.ps EXCEPT ![p].st = "follow", ![p].follow = r.ch],
              !.ch = r.ch]

\* () => $q.resolve(popHeight), in the no-op branches of move.
cbNoop(S, p) ==
    [S EXCEPT !.ps[p].st = "resolved", !.ps[p].h = S.ps[p].cb[2]]

\* () => { popHeight = this.hooks.getScrollHeight(); return $q.resolve(); }
cbReadHeight(S, p) ==
    [S EXCEPT !.ps[p].st = "resolved", !.ps[p].h = S.ln,
              !.tr = Append(@, <<"height", S.ps[p].op, p>>)]

\* The last step of move resolving with a height read then and there
\* ($q.resolve(this.hooks.getScrollHeight())) instead of popHeight.
cbPopHeightLate(S, p) ==
    [S EXCEPT !.ps[p].st = "resolved", !.ps[p].h = S.ln]

\* () => $q.resolve(popHeight), the last step of move.
cbPopHeight(S, p) ==
    [S EXCEPT !.ps[p].st = "resolved", !.ps[p].h = S.ps[S.ps[p].cb[2]].h]

\* () => this.clear(), the first step of a disjoint move: clear chains on
\* this.chain as it is when the callback runs and returns it.
cbClear(S, p) ==
    Followed(S, p, clear(S.ps, S.ch, S.rec, S.ps[p].op))

\* () => this.moveTail(OUTPUT_PAGE_SIZE), the last step of getFirst.
cbMoveTail(S, p, maxc) ==
    LET t == moveTailTarget(S.rec, maxc, S.ps[p].cb[2])
    IN Followed(S, p, move(S.ps, S.ch, S.rec, maxc, S.ln, t[1], t[2], S.ps[p].op))

\* () => this.moveHead(-OUTPUT_PAGE_SIZE), the last step of getLast.
cbMoveHead(S, p, maxc) ==
    LET t == moveHeadTarget(S.rec, S.ps[p].cb[2])
    IN Followed(S, p, move(S.ps, S.ch, S.rec, maxc, S.ln, t[1], t[2], S.ps[p].op))

\* () => this.api.getRange(range) / getFirst() / getLast(): the source call
\* starts.
FetchKinds == {"getRange", "apiGetFirst", "apiGetLast"}

cbFetch(S, p) == Started(S, p)

\* pushFront recording the new events before storage.append has resolved.
cbPushFrontEager(S, p) ==
    LET tail == getTailCounterOf(S.rec)
        newEvents == {c \in ValueIn(S.ps, S.ps[p].parent).ev : c > tail}
    IN [S EXCEPT
           !.rec = [c \in DOMAIN S.rec \cup newEvents |->
                       IF c \in newEvents THEN LineSpan(c) ELSE S.rec[c]],
           !.uu = [c \in DOMAIN S.uu \cup newEvents |->
                      IF c \in newEvents THEN Uuid(c) ELSE S.uu[c]],
           !.ps[p].ev = newEvents,
           !.ps[p].st = "called",
           !.tr = Append(@, <<"start", S.ps[p].op, p>>)]

\* events => this.pushFront(events): filter against the tail, call append.
pushFrontEvents(recs, events) ==
    LET tail == getTailCounterOf(recs)
    IN {c \in events : c > tail}

cbPushFront(S, p) ==
    Started([S EXCEPT !.ps[p].ev =
                 pushFrontEvents(S.rec, ValueIn(S.ps, S.ps[p].parent).ev)], p)

\* events => this.pushBack(events): filter against [head, tail], call
\* prepend.
pushBackEvents(recs, events) ==
    LET head == getHeadCounterOf(recs)
        tail == getTailCounterOf(recs)
    IN {c \in events : c < head \/ c > tail}

cbPushBack(S, p) ==
    Started([S EXCEPT !.ps[p].ev =
                 pushBackEvents(S.rec, ValueIn(S.ps, S.ps[p].parent).ev)], p)

\* The lines held by the records of lo..hi.
LinesIn(recs, lo, hi) ==
    LET held == {i \in DOMAIN recs : lo <= i /\ i <= hi}
    IN SumOver(held, recs)

\* The counters popBack(count) / popFront(count) loop over: <<min, max>>.
popBackBounds(recs, count) ==
    LET min == getHeadCounterOf(recs)
    IN <<min, min + count>>

popFrontBounds(recs, count) ==
    LET max == getTailCounterOf(recs)
    IN <<max - count, max>>

\* () => this.popBack(count) / this.popFront(count): nothing to do for a
\* count <= 0; otherwise count the lines of min..max and call shift / pop.
cbPop(S, p, b) ==
    IF S.ps[p].cb[2] <= 0
    THEN [S EXCEPT !.ps[p].st = "resolved"]
    ELSE Started([S EXCEPT !.ps[p].lo = b[1], !.ps[p].hi = b[2],
                           !.ps[p].n = LinesIn(S.rec, b[1], b[2])], p)

cbPopBack(S, p) == cbPop(S, p, popBackBounds(S.rec, S.ps[p].cb[2]))

cbPopFront(S, p) == cbPop(S, p, popFrontBounds(S.rec, S.ps[p].cb[2]))

\* The callback of p runs.
Callback(S, p, maxc) ==
    LET kind == S.ps[p].cb[1]
        T == [S EXCEPT !.ps[p].at = getRangeOf(S.rec),
                       !.ps[p].was = DOMAIN S.rec]
    IN CASE kind = "noopHeight" -> cbNoop(T, p)
         [] kind = "readHeight" -> cbReadHeight(T, p)
         [] kind = "popHeight" -> cbPopHeight(T, p)
         [] kind = "clear" -> cbClear(T, p)
         [] kind = "moveTail" -> cbMoveTail(T, p, maxc)
         [] kind = "moveHead" -> cbMoveHead(T, p, maxc)
         [] kind \in FetchKinds -> cbFetch(T, p)
         [] kind = "pushFront" -> cbPushFront(T, p)
         [] kind = "pushBack" -> cbPushBack(T, p)
         [] kind = "popBack" -> cbPopBack(T, p)
         [] OTHER -> cbPopFront(T, p)

\* The callbacks that are due: their parent has resolved.
DueIn(S) ==
    {p \in 1..Len(S.ps) :
        /\ S.ps[p].st = "wait"
        /\ StateN(S.ps, S.ps[p].parent, Len(S.ps) + 1) = "resolved"}

\* Callbacks run to completion, in the order they were registered, before
\* the next public call or the next completion of a collaborator call is
\* taken up.
RECURSIVE Drain(_, _)
Drain(S, maxc) ==
    IF DueIn(S) = {} THEN S
    ELSE Drain(Callback(S, SetMin(DueIn(S)), maxc), maxc)

\* ------------------------------------------------------------------- init
\* this.init(): empty window, this.chain = $q.resolve().
Init ==
    /\ records = <<>>
    /\ uuids = <<>>
    /\ promises = <<ResolvedPromise>>
    /\ chain = 1
    /\ maxCounter \in 0..MaxLog
    /\ lines = 0
    /\ ops = <<>>
    /\ trace = <<>>

Cur ==
    [rec |-> records, uu |-> uuids, ch |-> chain, ps |-> promises,
     ln |-> lines, tr |-> trace]

\* The callbacks made due run, and the result is the next state.
Settle(S) ==
    LET D == Drain(S, maxCounter)
    IN /\ records' = D.rec
       /\ uuids' = D.uu
       /\ chain' = D.ch
       /\ promises' = D.ps
       /\ lines' = D.ln
       /\ trace' = D.tr
       /\ UNCHANGED maxCounter

\* ----------------------------------------------------------- public calls
\* The ranges handed to move directly lie inside the log, or have a bound
\* that is not a number; the paging operations reach past the ends of the
\* log (moveHead below 1, moveTail above the maximum).
Targets == 1..Max2(1, maxCounter)
NonFinite == {<<NaN, 1>>, <<1, NaN>>}
Steps == 1..OUTPUT_PAGE_SIZE
Displacements == {-1, 1}

\* No promise is pending: every public call issued so far has settled.
AllSettled == \A p \in 1..Len(promises) : Settled(p)

\* One public call: r is what the call did to the promises and this.chain,
\* ret the promise it returned.
Issue(kind, a, b, r, ret) ==
    /\ Len(ops) < MaxCalls
    /\ Cardinality({i \in 1..Len(ops) : ~Settled(ops[i].ret)}) < MaxPending
    /\ Settle([Cur EXCEPT !.ps = r.ps, !.ch = r.ch])
    /\ ops' = Append(ops, [kind |-> kind, a |-> a, b |-> b, ret |-> ret,
                           before |-> DOMAIN records, quiet |-> AllSettled,
                           base |-> Len(promises), rec |-> records,
                           uu |-> uuids, ht |-> getScrollHeight])

Op == Len(ops) + 1

Move(low, high) ==
    LET r == move(promises, chain, records, maxCounter, getScrollHeight,
                  low, high, Op)
    IN Issue("move", low, high, r, r.ch)

GetNext(d) ==
    LET t == getNextTarget(records, maxCounter, d)
        r == move(promises, chain, records, maxCounter, getScrollHeight,
                  t[1], t[2], Op)
    IN Issue("getNext", d, 0, r, r.ch)

GetPrevious(d) ==
    LET t == getPreviousTarget(records, d)
        r == move(promises, chain, records, maxCounter, getScrollHeight,
                  t[1], t[2], Op)
    IN Issue("getPrevious", d, 0, r, r.ch)

MoveHead(d) ==
    LET t == moveHeadTarget(records, d)
        r == move(promises, chain, records, maxCounter, getScrollHeight,
                  t[1], t[2], Op)
    IN Issue("moveHead", d, 0, r, r.ch)

MoveTail(d) ==
    LET t == moveTailTarget(records, maxCounter, d)
        r == move(promises, chain, records, maxCounter, getScrollHeight,
                  t[1], t[2], Op)
    IN Issue("moveTail", d, 0, r, r.ch)

Clear ==
    LET r == clear(promises, chain, records, Op)
    IN Issue("clear", 0, 0, r, r.ch)

GetFirst ==
    LET r == getFirst(promises, chain, records, Op)
    IN Issue("getFirst", 0, 0, r, r.ret)

GetLast ==
    LET r == getLast(promises, chain, records, Op)
    IN Issue("getLast", 0, 0, r, r.ret)

\* ------------------------------------------- collaborator calls completing
Called(p, kinds) ==
    /\ p \in 1..Len(promises)
    /\ promises[p].st = "called"
    /\ promises[p].cb[1] \in kinds

Ended(S, p) == [S EXCEPT !.tr = Append(@, <<"end", S.ps[p].op, p>>)]

FetchResult(p) ==
    CASE promises[p].cb[1] = "getRange" ->
             ApiGetRange(<<promises[p].cb[2], promises[p].cb[3]>>, maxCounter)
      [] promises[p].cb[1] = "apiGetFirst" -> ApiGetFirst(maxCounter)
      [] OTHER -> ApiGetLast(maxCounter)

\* The source answers.
FetchResolves(p) ==
    /\ Called(p, FetchKinds)
    /\ Settle(Ended([Cur EXCEPT !.ps[p].st = "resolved",
                                !.ps[p].ev = FetchResult(p)], p))
    /\ UNCHANGED ops

\* The .then callback of pushFront / pushBack: the events are recorded.
recordEvents(recs, ev) ==
    [c \in DOMAIN recs \cup ev |-> IF c \in ev THEN LineSpan(c) ELSE recs[c]]

\* The events recorded without their uuids (line 118 left out).
recordUuidsOmitted(uu, ev) == uu

recordUuids(uu, ev) ==
    [c \in DOMAIN uu \cup ev |-> IF c \in ev THEN Uuid(c) ELSE uu[c]]

\* storage.append / storage.prepend resolves: the sink holds the new lines,
\* and the events are recorded.
PushResolves(p) ==
    /\ Called(p, {"pushFront", "pushBack"})
    /\ Settle(Ended([Cur EXCEPT
           !.rec = recordEvents(records, promises[p].ev),
           !.uu = recordUuids(uuids, promises[p].ev),
           !.ln = lines + SpanSum(promises[p].ev),
           !.ps[p].st = "resolved",
           !.ps[p].did = promises[p].ev \ DOMAIN records,
           !.ps[p].ev = {}], p))
    /\ UNCHANGED ops

\* The .then callback of popBack / popFront: the counters min..max are
\* deleted.
deleteCounters(f, min, max) == [c \in DOMAIN f \ (min..max) |-> f[c]]

\* this.storage.deleteRecord(this.uuids[i]) for every i the loop visits,
\* upward from min in popBack and downward from max in popFront; a counter
\* that is not held passes `undefined`, written 0.
deleteRecordCalls(uu, min, max, op, downward, p) ==
    [k \in 1..(max - min + 1) |->
        LET i == IF downward THEN max - k + 1 ELSE min + k - 1
        IN <<"delete", op, IF i \in DOMAIN uu THEN uu[i] ELSE 0, p>>]

\* storage.shift / storage.pop resolves: the sink has dropped the lines, and
\* the counters are deleted.
PopResolves(p) ==
    /\ Called(p, {"popBack", "popFront"})
    /\ Settle([Ended(Cur, p) EXCEPT
           !.rec = deleteCounters(records, promises[p].lo, promises[p].hi),
           !.uu = deleteCounters(uuids, promises[p].lo, promises[p].hi),
           !.ln = lines - promises[p].n,
           !.tr = @ \o deleteRecordCalls(uuids, promises[p].lo, promises[p].hi,
                                         promises[p].op,
                                         promises[p].cb[1] = "popFront", p),
           !.ps[p].did = DOMAIN records \cap (promises[p].lo..promises[p].hi),
           !.ps[p].st = "resolved"])
    /\ UNCHANGED ops

\* A sink or source call rejects.
CallRejects(p) ==
    /\ Called(p, FetchKinds \cup {"pushFront", "pushBack", "popBack", "popFront"})
    /\ Settle(Ended([Cur EXCEPT !.ps[p].st = "rejected"], p))
    /\ UNCHANGED ops

\* ------------------------------------------------------------------- next
Call ==
    \/ \E low \in Targets : \E high \in Targets : low <= high /\ Move(low, high)
    \/ \E t \in NonFinite : Move(t[1], t[2])
    \/ \E d \in Steps : GetNext(d)
    \/ \E d \in Steps : GetPrevious(d)
    \/ \E d \in Displacements : MoveHead(d)
    \/ \E d \in Displacements : MoveTail(d)
    \/ Clear
    \/ GetFirst
    \/ GetLast

Completion(p) ==
    \/ FetchResolves(p)
    \/ PushResolves(p)
    \/ PopResolves(p)

\* Every collaborator call succeeds.
Next ==
    \/ Call
    \/ \E p \in 1..Len(promises) : Completion(p)

Spec == Init /\ [][Next]_vars

\* Collaborator calls may fail.
NextFail ==
    \/ Len(ops) < MaxFailCalls /\ Call
    \/ \E p \in 1..Len(promises) : Completion(p)
    \/ \E p \in 1..Len(promises) : CallRejects(p)

SpecFail == Init /\ [][NextFail]_vars

\* ----------------------------------------------------------------- claims
Keys == DOMAIN records
RangeSet(S) == IF S = {} THEN {} ELSE SetMin(S)..SetMax(S)
Contiguous == Keys = RangeSet(Keys)

Ops == 1..Len(ops)
OpSettled(i) == Settled(ops[i].ret)
AllOpsSettled == \A i \in Ops : OpSettled(i)
PagingKinds == {"getNext", "getPrevious", "moveHead", "moveTail"}
MoveKinds == PagingKinds \cup {"move"}
JumpKinds == {"getFirst", "getLast"}

\* The collaborator calls that are pending.
PendingCalls == {p \in 1..Len(promises) : promises[p].st = "called"}

\* Nothing more will happen unless another public call is made.
Quiescent == PendingCalls = {}

\* The last public call was made on a settled window and is of kind k.
LastOn(k) ==
    /\ ops # <<>>
    /\ ops[Len(ops)].kind = k
    /\ ops[Len(ops)].quiet

Last == ops[Len(ops)]
HeadBefore == IF Last.before = {} THEN 0 ELSE SetMin(Last.before)
TailBefore == IF Last.before = {} THEN 0 ELSE SetMax(Last.before)

\* C1 (contiguity): once every call made has settled, the counters held in
\* `records` are none or exactly head..tail, whatever calls were made and
\* whenever they were made.
C1_Contiguity == AllOpsSettled => Contiguous

\* C2 (capacity bound): after paging and jump calls, each made on a settled
\* window and all settled, the window holds at most OUTPUT_EVENT_LIMIT
\* counters.
C2_CapacityBound ==
    (/\ AllOpsSettled
     /\ \A i \in Ops : ops[i].quiet /\ ops[i].kind \in PagingKinds \cup JumpKinds)
    => getRecordCount <= OUTPUT_EVENT_LIMIT

\* C3 (mutual exclusion): never are two sink or source calls pending at
\* once.
C3_OneCallAtATime == Cardinality(PendingCalls) <= 1

\* C4 (no stale reads): when a move or paging call is made before the move
\* or paging call made just before it has settled, the range its plan was
\* computed from is the range of the window when its first step runs.
C4_NoStaleRead ==
    \A p \in 1..Len(promises) :
        (/\ promises[p].first
         /\ promises[p].st # "wait"
         /\ promises[p].op > 1
         /\ ops[promises[p].op].kind \in MoveKinds
         /\ ops[promises[p].op - 1].kind \in MoveKinds
         /\ ~ops[promises[p].op].quiet)
        => promises[p].snap = promises[p].at

\* C5 (call order): no sink or source call made for an earlier public call
\* starts or completes after one made for a later public call has started.
C5_CallOrder ==
    \A i \in 1..Len(trace) : \A j \in 1..Len(trace) :
        (i < j /\ trace[i][1] = "start" /\ trace[j][1] \in {"start", "end"})
        => trace[j][2] >= trace[i][2]

\* The promise p waits for: the one it follows, or the one it is chained on.
WaitsFor(p) ==
    CASE promises[p].st = "follow" -> promises[p].follow
      [] promises[p].st = "wait" -> promises[p].parent
      [] OTHER -> 0

RECURSIVE ReachesN(_, _, _)
ReachesN(p, q, fuel) ==
    /\ fuel > 0
    /\ p # 0
    /\ \/ WaitsFor(p) = q
       \/ ReachesN(WaitsFor(p), q, fuel - 1)

InWaitCycle(p) == ReachesN(p, p, Len(promises))

\* C6 (every operation settles): no step waits on a promise that itself
\* waits on that step.
C6_NoWaitCycle == \A p \in 1..Len(promises) : ~InWaitCycle(p)

\* C7 (disjoint reload): after move(target) on a settled non-empty window
\* that does not overlap the target, once nothing is left to do the window
\* holds exactly the counters of the target.
C7_DisjointReload ==
    (/\ LastOn("move")
     /\ Last.before # {}
     /\ 1 <= Last.a /\ Last.a <= maxCounter
     /\ 1 <= Last.b /\ Last.b <= maxCounter
     /\ ~checkRangeOverlap(<<HeadBefore, TailBefore>>, <<Last.a, Last.b>>)
     /\ Quiescent)
    => Keys = Last.a..Last.b

\* C8 (overlap patch): after move([l, u]) on a settled contiguous window
\* that overlaps [l, u], 1 <= l <= u <= maxCounter, has settled, the window
\* is exactly l..u.
C8_OverlapPatch ==
    (/\ LastOn("move")
     /\ Last.before # {}
     /\ Last.before = RangeSet(Last.before)
     /\ 1 <= Last.a /\ Last.a <= Last.b /\ Last.b <= maxCounter
     /\ checkRangeOverlap(<<HeadBefore, TailBefore>>, <<Last.a, Last.b>>)
     /\ OpSettled(Len(ops)))
    => Keys = Last.a..Last.b

\* C9 (advance capping): after getNext(step) on a settled contiguous window
\* [h, t] has settled, the tail is t + min(maxCounter - t, step) and the
\* head is h, or newTail - OUTPUT_EVENT_LIMIT when newTail - h exceeds
\* OUTPUT_EVENT_LIMIT.
C9_AdvanceCapping ==
    (/\ LastOn("getNext")
     /\ Last.before # {}
     /\ Last.before = RangeSet(Last.before)
     /\ OpSettled(Len(ops)))
    => LET newTail == TailBefore + Min2(maxCounter - TailBefore, Last.a)
       IN /\ getTailCounter = newTail
          /\ getHeadCounter = IF newTail - HeadBefore <= OUTPUT_EVENT_LIMIT
                              THEN HeadBefore
                              ELSE newTail - OUTPUT_EVENT_LIMIT

\* C10 (shiftTail asymmetry): after moveTail(d) on a settled window [h, t]
\* has settled, the head is h and the tail is t - |d| for d < 0 (a retreat
\* that leaves the window non-empty) and t + min(d, maxCounter - t) for
\* d > 0.
C10_ShiftTail ==
    (/\ LastOn("moveTail")
     /\ Last.before # {}
     /\ Last.before = RangeSet(Last.before)
     /\ TailBefore + Last.a >= HeadBefore
     /\ OpSettled(Len(ops)))
    => /\ getHeadCounter = HeadBefore
       /\ getTailCounter = IF Last.a < 0
                           THEN TailBefore + Last.a
                           ELSE TailBefore + Min2(Last.a, maxCounter - TailBefore)

\* C11 (jump extension is one page): after getFirst() on a settled window
\* has settled, the window holds the source's first page and at most
\* OUTPUT_PAGE_SIZE counters above it; after getLast() has settled, the tail
\* is the last counter of the log and the head lies OUTPUT_PAGE_SIZE below
\* the lowest counter of the last page, or at 1.
C11_JumpExtension ==
    /\ (/\ LastOn("getFirst")
        /\ maxCounter > 0
        /\ OpSettled(Len(ops)))
       => /\ ApiGetFirst(maxCounter) \subseteq Keys
          /\ Keys \subseteq
                 1..(SetMax(ApiGetFirst(maxCounter)) + OUTPUT_PAGE_SIZE)
    /\ (/\ LastOn("getLast")
        /\ maxCounter > 0
        /\ OpSettled(Len(ops)))
       => /\ getTailCounter = maxCounter
          /\ getHeadCounter =
                 Max2(1, SetMin(ApiGetLast(maxCounter)) - OUTPUT_PAGE_SIZE)

\* The sink and source calls made on behalf of the public call i: the trace
\* entries that start one, or that call deleteRecord.
CallsOf(i) ==
    {k \in 1..Len(trace) : trace[k][2] = i /\ trace[k][1] \in {"start", "delete"}}

\* The last public call was move(getRange()) on a settled non-empty window.
Retargeted ==
    /\ LastOn("move")
    /\ Last.before # {}
    /\ <<Last.a, Last.b>> = <<HeadBefore, TailBefore>>

\* C12 (idempotent re-target): move(getRange()) on a settled non-empty
\* window makes no sink call and no source call, leaves `records` and
\* `uuids` as they were, and resolves with the height of the sink.
C12_IdempotentRetarget ==
    Retargeted
    => /\ CallsOf(Len(ops)) = {}
       /\ records = Last.rec
       /\ uuids = Last.uu
       /\ StateOf(Last.ret) = "resolved"
       /\ ValueIn(promises, Last.ret).h = Last.ht

\* C12 witness: move(getRange()) on a window of several counters has
\* resolved.
C12_Witness ==
    /\ Retargeted
    /\ Cardinality(Last.before) > 1
    /\ StateOf(Last.ret) = "resolved"

\* The trace entries at which a sink or source call rejected.
Rejections ==
    {k \in 1..Len(trace) :
        trace[k][1] = "end" /\ promises[trace[k][3]].st = "rejected"}

\* C13 (chain poisoning): once a sink or source call has rejected, every move
\* or paging call made afterwards (here: once everything has settled)
\* returns a rejected promise and makes no sink or source call, and no call
\* that completes after the rejection changes `records` or `uuids`.
C13_ChainPoisoning ==
    \A k \in Rejections :
        /\ \A i \in Ops :
               (/\ ops[i].kind \in MoveKinds
                /\ ops[i].quiet
                /\ ops[i].base >= trace[k][3])
               => StateOf(ops[i].ret) = "rejected" /\ CallsOf(i) = {}
        /\ \A j \in 1..Len(trace) :
               (j > k /\ trace[j][1] = "end")
               => promises[trace[j][3]].did = {}

\* The counters popBack(count) / popFront(count) is to remove from a window
\* holding the counters `held`.
Lowest(held, count) == {c \in held : c < SetMin(held) + count}
Highest(held, count) == {c \in held : c > SetMax(held) - count}

\* The first step of the last public call, a move or paging call made on a
\* settled contiguous window, is popBack(n) or popFront(n) with the window
\* holding more than n >= 1 counters, and its callback has run.
ShrinkStep(p) ==
    /\ ops # <<>>
    /\ Last.kind \in MoveKinds
    /\ Last.quiet
    /\ Last.before # {}
    /\ Last.before = RangeSet(Last.before)
    /\ promises[p].op = Len(ops)
    /\ promises[p].first
    /\ promises[p].cb[1] \in {"popBack", "popFront"}
    /\ promises[p].st \in {"called", "resolved"}
    /\ promises[p].cb[2] >= 1
    /\ Cardinality(Last.before) > promises[p].cb[2]

\* C14 (shrink removes exactly n): popBack(n) / popFront(n) on a contiguous
\* window of more than n counters passes the sink the lines of the n lowest
\* / highest records, and deletes exactly those counters.
C14_ShrinkExact ==
    \A p \in 1..Len(promises) :
        ShrinkStep(p)
        => LET doomed == IF promises[p].cb[1] = "popBack"
                         THEN Lowest(Last.before, promises[p].cb[2])
                         ELSE Highest(Last.before, promises[p].cb[2])
           IN /\ promises[p].n = SumOver(doomed, Last.rec)
              /\ promises[p].st = "resolved" => promises[p].did = doomed

\* The promises created for the public call i.
StepsOf(i) == {p \in 1..Len(promises) : promises[p].op = i}

\* The public call i is one overlapping move: a move or paging call whose
\* plan is not the reload of a disjoint target.
Overlapping(i) ==
    /\ ops[i].kind \in MoveKinds
    /\ \A p \in StepsOf(i) : promises[p].cb[1] # "clear"

\* The place of a trace entry in the order of the steps of a move: low-end
\* eviction, high-end eviction, height read, low-end fetch and prepend,
\* high-end fetch and append.
StepRank(e) ==
    LET kind == promises[e[3]].cb[1]
    IN CASE e[1] = "height" -> 3
         [] kind = "popBack" -> 1
         [] kind = "popFront" -> 2
         [] kind = "pushBack" -> 4
         [] kind = "pushFront" -> 5
         [] kind = "getRange" ->
                IF promises[e[3] + 1].cb[1] = "pushBack" THEN 4 ELSE 5
         [] OTHER -> 0

\* The entries of the trace that belong to the steps of the public call i.
EntriesOf(i) ==
    {k \in 1..Len(trace) :
        trace[k][2] = i /\ trace[k][1] \in {"start", "end", "height"}}

\* The sink's height after the trims of the last public call, made on a
\* settled window: its height before less the lines its trims evicted.
TrimmedHeight ==
    LET pops == {p \in StepsOf(Len(ops)) :
                    /\ promises[p].cb[1] \in {"popBack", "popFront"}
                    /\ promises[p].st = "resolved"}
    IN Last.ht - SumOver(pops, [p \in pops |-> promises[p].n])

\* C15 (fixed step order): within one overlapping move the steps start and
\* complete in the order shift, pop, height read, low-end fetch and prepend,
\* high-end fetch and append, none starting before the one before it has
\* completed; and a move made on a settled window resolves with the height
\* the sink has after the trims and before the growths.
C15_StepOrder ==
    /\ \A i \in Ops :
           Overlapping(i)
           => \A j \in EntriesOf(i) : \A k \in EntriesOf(i) :
                  j < k
                  => /\ StepRank(trace[j]) <= StepRank(trace[k])
                     /\ trace[j][1] = "start"
                        => \E m \in EntriesOf(i) :
                               /\ j < m /\ m <= k
                               /\ trace[m] = <<"end", i, trace[j][3]>>
    /\ (/\ ops # <<>>
        /\ Last.quiet
        /\ Overlapping(Len(ops))
        /\ StateOf(Last.ret) = "resolved")
       => ValueIn(promises, Last.ret).h = TrimmedHeight

\* C15 witness: a move made on a settled window that trims one end and
\* grows the other has resolved.
C15_Witness ==
    /\ ops # <<>>
    /\ Last.quiet
    /\ Overlapping(Len(ops))
    /\ StateOf(Last.ret) = "resolved"
    /\ \E p \in StepsOf(Len(ops)) : \E q \in StepsOf(Len(ops)) :
           /\ promises[p].cb[1] \in {"popBack", "popFront"}
           /\ promises[p].did # {}
           /\ promises[q].cb[1] \in {"pushBack", "pushFront"}
           /\ promises[q].did # {}

\* The last public call was move([l, u]) on a settled window [h, t] with
\* h <= l <= u <= t.
ShrinkOnly ==
    /\ LastOn("move")
    /\ Last.before # {}
    /\ HeadBefore <= Last.a
    /\ Last.a <= Last.b
    /\ Last.b <= TailBefore

\* C16 (shrink-only patch): move([l, u]) on a settled window [h, t] with
\* h <= l <= u <= t queues and makes no source call and no append or
\* prepend; the only calls it makes are shift and pop.
C16_ShrinkOnlyPatch ==
    ShrinkOnly
    => /\ \A p \in StepsOf(Len(ops)) :
              promises[p].cb[1] \notin FetchKinds \cup {"pushFront", "pushBack"}
       /\ \A k \in 1..Len(trace) :
              (trace[k][2] = Len(ops) /\ trace[k][1] = "start")
              => promises[trace[k][3]].cb[1] \in {"popBack", "popFront"}

\* C16 witness: such a move, to a target strictly inside the window, has
\* evicted counters and resolved.
C16_Witness ==
    /\ ShrinkOnly
    /\ <<Last.a, Last.b>> # <<HeadBefore, TailBefore>>
    /\ StateOf(Last.ret) = "resolved"
    /\ \E p \in StepsOf(Len(ops)) : promises[p].did # {}

\* The range the public call i, a move or paging call, handed to move.
TargetOf(i) ==
    LET kind == ops[i].kind
    IN CASE kind = "getNext" -> getNextTarget(ops[i].rec, maxCounter, ops[i].a)
         [] kind = "getPrevious" -> getPreviousTarget(ops[i].rec, ops[i].a)
         [] kind = "moveHead" -> moveHeadTarget(ops[i].rec, ops[i].a)
         [] kind = "moveTail" -> moveTailTarget(ops[i].rec, maxCounter, ops[i].a)
         [] OTHER -> <<ops[i].a, ops[i].b>>

\* That range has a bound that is not finite, or is inverted once its low
\* bound is raised to 1 and its high bound lowered to getMaxCounter().
Invalid(i) ==
    LET t == TargetOf(i)
        max == getMaxCounterOf(ops[i].rec, maxCounter)
    IN \/ ~isFinite(t[1])
       \/ ~isFinite(t[2])
       \/ Max2(t[1], 1) > Min2(t[2], max)

\* C17 (invalid target is a no-op): a move whose clamped target is inverted
\* or not finite queues one step only, makes no sink or source call, is
\* never rejected, resolves with the height the sink had when move was
\* called, does so at once when made on a settled window, and then leaves
\* `records` and `uuids` as they were.
C17_InvalidTargetNoop ==
    \A i \in Ops :
        (ops[i].kind \in MoveKinds /\ Invalid(i))
        => /\ Cardinality(StepsOf(i)) = 1
           /\ CallsOf(i) = {}
           /\ StateOf(ops[i].ret) # "rejected"
           /\ StateOf(ops[i].ret) = "resolved"
              => ValueIn(promises, ops[i].ret).h = ops[i].ht
           /\ ops[i].quiet => StateOf(ops[i].ret) = "resolved"
           /\ (ops[i].quiet /\ i = Len(ops))
              => records = ops[i].rec /\ uuids = ops[i].uu

\* C17 witness: a move with an invalid target, the last call made and made
\* while the move before it, itself made on a settled window, was still at
\* work, has resolved with the height read at the call, which is no longer
\* the height of the sink.
C17_Witness ==
    /\ Len(ops) > 1
    /\ Last.kind \in MoveKinds
    /\ Invalid(Len(ops))
    /\ ~Last.quiet
    /\ ops[Len(ops) - 1].quiet
    /\ ops[Len(ops) - 1].kind \in MoveKinds
    /\ StateOf(Last.ret) = "resolved"
    /\ Last.ht # lines
    /\ ValueIn(promises, Last.ret).h = Last.ht

\* C17 witness of the inverted case: a paging call on an empty window of a
\* non-empty log has resolved.
C17_InvertedReached ==
    \E i \in Ops :
        /\ ops[i].kind \in PagingKinds
        /\ Invalid(i)
        /\ maxCounter > 0
        /\ StateOf(ops[i].ret) = "resolved"

SinkKinds == {"pushFront", "pushBack", "popFront", "popBack"}

\* The sink calls that rejected.
RejectedSinkCalls ==
    {p \in 1..Len(promises) :
        promises[p].st = "rejected" /\ promises[p].cb[1] \in SinkKinds}

\* The step q was chained, directly or through other steps, on the step p.
RECURSIVE ChainedOnN(_, _, _)
ChainedOnN(q, p, fuel) ==
    /\ fuel > 0
    /\ q # 0
    /\ \/ promises[q].parent = p
       \/ ChainedOnN(promises[q].parent, p, fuel - 1)

ChainedOn(q, p) == ChainedOnN(q, p, Len(promises))

\* The sink call of p has just rejected, and between its start and its
\* rejection no other sink call completed.
JustRejectedAlone(p) ==
    /\ trace # <<>>
    /\ trace[Len(trace)] = <<"end", promises[p].op, p>>
    /\ \E j \in 1..Len(trace) :
           /\ trace[j] = <<"start", promises[p].op, p>>
           /\ \A k \in (j + 1)..(Len(trace) - 1) :
                  ~(trace[k][1] = "end"
                    /\ promises[trace[k][3]].cb[1] \in SinkKinds)

\* C18 (edge operations are all or nothing): when the sink call of
\* pushFront, pushBack, popFront or popBack rejects, the edge operation has
\* added and removed no counter and called deleteRecord for none, no step
\* chained on it ever runs, and `records` and `uuids` hold the counters they
\* held when the edge operation started (no other sink call having
\* completed meanwhile).
C18_AllOrNothing ==
    \A p \in RejectedSinkCalls :
        /\ promises[p].did = {}
        /\ \A k \in 1..Len(trace) :
               trace[k][1] = "delete" => trace[k][4] # p
        /\ \A q \in 1..Len(promises) :
               ChainedOn(q, p)
               => promises[q].st = "wait" /\ StateOf(q) = "rejected"
        /\ JustRejectedAlone(p)
           => /\ DOMAIN records = promises[p].was
              /\ DOMAIN uuids = promises[p].was

\* C18 witness: the append of a pushFront that had new events to add has
\* just rejected, with a later step chained on it.
C18_Witness ==
    \E p \in RejectedSinkCalls :
        /\ promises[p].cb[1] = "pushFront"
        /\ promises[p].ev # {}
        /\ JustRejectedAlone(p)
        /\ \E q \in 1..Len(promises) : ChainedOn(q, p)

\* C18 witness for the evictions: the shift or pop of a move has rejected
\* on a window that holds counters, with later steps chained on it.
C18_PopRejected ==
    \E p \in RejectedSinkCalls :
        /\ promises[p].cb[1] \in {"popFront", "popBack"}
        /\ promises[p].was # {}
        /\ JustRejectedAlone(p)
        /\ \E q \in 1..Len(promises) : ChainedOn(q, p)

\* C19 (span / identity parity): in every reachable state `records` and
\* `uuids` have the same counters as keys.
C19_KeyParity == DOMAIN records = DOMAIN uuids

\* C19 witness: counters have been added and counters have been removed,
\* and the window holds some.
C19_Witness ==
    /\ Keys # {}
    /\ \E p \in 1..Len(promises) :
           promises[p].cb[1] \in {"pushFront", "pushBack"} /\ promises[p].did # {}
    /\ \E p \in 1..Len(promises) :
           promises[p].cb[1] \in {"popFront", "popBack"} /\ promises[p].did # {}

\* C20 (sink / window line consistency): whenever no sink or source call is
\* pending, the sink holds as many lines as the records of the window span
\* together.
C20_LineConsistency == Quiescent => lines = SumOver(Keys, records)

====
